---- MODULE Spec2Model ----
(***************************************************************************)
(* Model of the training portal of app.py: the slide resolver              *)
(* (PresentationGenerator) and the progress store (load_user_progress,     *)
(* save_user_progress, update_user_progress).                              *)
(*                                                                         *)
(* Python values are tagged records.  A Python str that the program builds *)
(* with f-strings is a sequence of fragments (TLA+ strings); concatenation *)
(* is \o.  The long literal markdown blocks of the slide tables are single *)
(* fragments named "<...>"; the heading marker "#" that starts every slide *)
(* literal is a fragment of its own; emojis are written ":name:".          *)
(* A call either returns a value or raises an exception.                   *)
(***************************************************************************)
EXTENDS Integers, Sequences, FiniteSets, TLC

VARIABLES config, presentation_gen, user_progress, progress_file, request, slide, reply,
          peer_progress, calls

vars == <<config, presentation_gen, user_progress, progress_file, request, slide, reply,
          peer_progress, calls>>

(***************************************************************************)
(* Bounds.                                                                 *)
(***************************************************************************)
MaxSlideIndex == 6
MaxHistory == 2
MaxPortalHistory == 1
MaxCompleted == 2
MaxWriterHistory == 1
MaxThreadCalls == 2

(***************************************************************************)
(* Python values.                                                          *)
(***************************************************************************)
PyNone == [t |-> "NoneType"]
PyStr(s) == [t |-> "str", s |-> s]
PyBool(b) == [t |-> "bool", b |-> b]
PyInt(n) == [t |-> "int", n |-> n]
PyList(l) == [t |-> "list", l |-> l]
PyDict(d) == [t |-> "dict", d |-> d]

EmptyDict == PyDict(<<>>)

Return(v) == [kind |-> "return", value |-> v]
Raise(e) == [kind |-> "raise", exc |-> e]

\* dict.get(key, default) on the mapping d
Get(d, key, default) == IF key \in DOMAIN d THEN d[key] ELSE default

\* bool(v): the truth value Python gives v in `if v` / `not v`
Truthy(v) ==
  CASE v.t = "NoneType" -> FALSE
    [] v.t = "bool" -> v.b
    [] v.t = "int" -> v.n # 0
    [] v.t = "str" -> v.s # ""
    [] v.t = "list" -> Len(v.l) > 0
    [] v.t = "dict" -> DOMAIN v.d # {}

\* the characters of a str, for `for topic in <str>`
Chars(s) ==
  CASE s = "" -> <<>>
    [] s = "ab" -> <<"a", "b">>
    [] s = "not_a_list" -> <<"n", "o", "t", "_", "a", "_", "l", "i", "s", "t">>

\* str.title()
TitleCase(s) ==
  CASE s = "beginner" -> "Beginner"
    [] s = "intermediate" -> "Intermediate"
    [] s = "advanced" -> "Advanced"
    [] s = "expert" -> "Expert"
    [] s = "Not specified" -> "Not Specified"
    [] s = "" -> ""

RECURSIVE JoinItems(_, _)
\* sep.join(items) for a list of texts
JoinItems(sep, items) ==
  IF Len(items) = 0 THEN <<>>
  ELSE IF Len(items) = 1 THEN items[1]
  ELSE items[1] \o <<sep>> \o JoinItems(sep, Tail(items))

\* the text an f-string puts for {v}: str(v)
Format(v) ==
  CASE v.t = "str" -> <<v.s>>
    [] v.t = "NoneType" -> <<"None">>
    [] v.t = "bool" -> IF v.b THEN <<"True">> ELSE <<"False">>
    [] v.t = "int" -> <<ToString(v.n)>>
    [] v.t = "list" ->
         <<"[">> \o JoinItems(", ", [i \in 1..Len(v.l) |-> <<"'", v.l[i], "'">>]) \o <<"]">>

(***************************************************************************)
(* Configurations (module_config.json and the configurations the tests     *)
(* construct generators with).                                             *)
(***************************************************************************)
Module(title, description, topics, hands_on, difficulty) ==
  [title |-> PyStr(title), description |-> PyStr(description), topics |-> PyList(topics),
   hands_on |-> PyBool(hands_on), difficulty |-> PyStr(difficulty)]

Criteria(u, a, p) == [understanding |-> u, application |-> a, problem_solving |-> p]

Slides(titles) == [slides |-> titles]

SAMPLE_MODULE_CONFIG ==
  [modules |-> [id \in {"m1", "m2"} |->
       IF id = "m1" THEN Module("Programming", "Practical", <<"t1", "t2">>, TRUE, "intermediate")
       ELSE Module("Practices", "Effective", <<"t2", "t3">>, FALSE, "beginner")],
   presentation_templates |->
     [tt \in {"introduction", "module_overview", "hands_on_session", "conclusion"} |->
       CASE tt = "introduction" -> Slides(<<"Welcome", "Journey", "Tools", "Outcomes">>)
         [] tt = "module_overview" ->
              Slides(<<"Module Introduction", "Objectives", "Key Topics", "Activities", "Assessment Criteria">>)
         [] tt = "hands_on_session" -> Slides(<<"Setup", "Implementation", "Challenges", "Practices", "Next Steps">>)
         [] tt = "conclusion" -> Slides(<<"Takeaways", "Resources", "Community", "Certification">>)],
   assessment_criteria |-> [d \in {"beginner", "intermediate", "advanced"} |->
       CASE d = "beginner" -> Criteria(40, 30, 30)
         [] d = "intermediate" -> Criteria(30, 40, 30)
         [] d = "advanced" -> Criteria(20, 40, 40)]]

\* a configuration with five introduction and conclusion titles, six overview
\* titles, a template type of its own and the weights of the BDD steps
WIDE_MODULE_CONFIG ==
  [modules |-> [id \in {"m1", "m2", "m3"} |->
       CASE id = "m1" -> Module("Programming", "Practical", <<"t1", "t1", "t3">>, TRUE, "advanced")
         [] id = "m2" -> Module("Practices", "Effective", <<"t2">>, FALSE, "intermediate")
         [] id = "m3" -> Module("Integration", "Advanced", <<>>, TRUE, "beginner")],
   presentation_templates |->
     [tt \in {"introduction", "module_overview", "hands_on_session", "conclusion", "workshop"} |->
       CASE tt = "introduction" -> Slides(<<"Welcome", "Journey", "Tools", "Outcomes", "Agenda">>)
         [] tt = "module_overview" ->
              Slides(<<"Module Introduction", "Objectives", "Key Topics", "Activities", "Assessment Criteria", "Summary">>)
         [] tt = "hands_on_session" -> Slides(<<"Setup", "Implementation">>)
         [] tt = "conclusion" -> Slides(<<"Takeaways", "Resources", "Community", "Certification", "Farewell">>)
         [] tt = "workshop" -> Slides(<<"Kickoff", "">>)],
   assessment_criteria |-> [d \in {"beginner", "intermediate", "advanced"} |->
       CASE d = "beginner" -> Criteria(40, 40, 20)
         [] d = "intermediate" -> Criteria(30, 50, 20)
         [] d = "advanced" -> Criteria(25, 45, 30)]]

MINIMAL_MODULE_CONFIG ==
  [modules |-> [id \in {"m1"} |-> Module("Test Module", "A test module", <<"t1">>, FALSE, "beginner")],
   presentation_templates |-> [tt \in {"introduction", "module_overview"} |->
       IF tt = "introduction" THEN Slides(<<"Welcome">>) ELSE Slides(<<"Module Introduction">>)],
   assessment_criteria |-> [d \in {"beginner"} |-> Criteria(100, 0, 0)]]

EMPTY_MODULE_CONFIG ==
  [modules |-> <<>>, presentation_templates |-> <<>>, assessment_criteria |-> <<>>]

Configs == {SAMPLE_MODULE_CONFIG, WIDE_MODULE_CONFIG, MINIMAL_MODULE_CONFIG, EMPTY_MODULE_CONFIG}

\* the module records of the configurations
ConfiguredModules == UNION {{PyDict(c.modules[id]) : id \in DOMAIN c.modules} : c \in Configs}

\* module records with missing or malformed fields
malformed_module ==
  PyDict([title |-> PyStr(""), description |-> PyNone, topics |-> PyStr("not_a_list"),
          hands_on |-> PyStr("maybe"), difficulty |-> PyStr("expert")])

MalformedModules ==
  { malformed_module,
    PyDict([t \in {"title"} |-> PyStr("Only Title")]),
    PyDict([t \in {"title", "topics"} |-> IF t = "title" THEN PyStr("No Topics") ELSE PyNone]),
    PyDict([t \in {"title", "topics"} |-> IF t = "title" THEN PyStr("Str Topics") ELSE PyStr("ab")]),
    PyDict([t \in {"title", "difficulty"} |-> IF t = "title" THEN PyStr("No Level") ELSE PyNone]),
    PyDict([t \in {"title", "difficulty"} |-> IF t = "title" THEN PyStr("Expert") ELSE PyStr("expert")]),
    PyDict([t \in {"difficulty", "hands_on"} |-> IF t = "difficulty" THEN PyStr("advanced") ELSE PyInt(1)]) }

ModuleDatas == {PyNone, EmptyDict} \cup ConfiguredModules \cup MalformedModules

BuiltinTemplates == {"introduction", "module_overview", "hands_on_session", "conclusion"}

TemplateTypes == BuiltinTemplates \cup {"workshop", "nonexistent_template"}

SlideIndexes == (0 - MaxSlideIndex) .. MaxSlideIndex

(***************************************************************************)
(* PresentationGenerator.  G is the module namespace of app.py (the        *)
(* globals a method body can read): G.config and G.user_progress.          *)
(***************************************************************************)
PresentationGenerator(cfg) == [config |-> cfg, templates |-> cfg.presentation_templates]

\* content.get(index, f"# {title}\n\nContent coming soon...")
ContentGet(content, index, title) ==
  IF index \in DOMAIN content THEN content[index]
  ELSE <<"#", " ", title, "\n\nContent coming soon...">>

generate_introduction_slide(title, index) ==
  LET content == [i \in 0..3 |->
        CASE i = 0 -> <<"#", " :rocket: ", title, "<introduction 0>">>
          [] i = 1 -> <<"#", " :books: ", title, "<introduction 1>">>
          [] i = 2 -> <<"#", " :tools: ", title, "<introduction 2>">>
          [] i = 3 -> <<"#", " :target: ", title, "<introduction 3>">>]
  IN Return(ContentGet(content, index, title))

generate_hands_on_slide(title, index, module_data) ==
  LET content == [i \in 0..4 |->
        CASE i = 0 -> <<"#", " :rocket: ", title, "<hands_on 0>">>
          [] i = 1 -> <<"#", " :coder: ", title, "<hands_on 1>">>
          [] i = 2 -> <<"#", " :warning: ", title, "<hands_on 2>">>
          [] i = 3 -> <<"#", " :star: ", title, "<hands_on 3>">>
          [] i = 4 -> <<"#", " :crystal: ", title, "<hands_on 4>">>]
  IN Return(ContentGet(content, index, title))

generate_conclusion_slide(title, index) ==
  LET content == [i \in 0..3 |->
        CASE i = 0 -> <<"#", " :tada: ", title, "<conclusion 0>">>
          [] i = 1 -> <<"#", " :books: ", title, "<conclusion 1>">>
          [] i = 2 -> <<"#", " :handshake: ", title, "<conclusion 2>">>
          [] i = 3 -> <<"#", " :graduate: ", title, "<conclusion 3>">>]
  IN Return(ContentGet(content, index, title))

\* the elements `for topic in v` yields, or the TypeError of a non-iterable
Iterable(v) == v.t \in {"list", "str"}
IterItems(v) == IF v.t = "list" THEN v.l ELSE Chars(v.s)

\* the table config['assessment_criteria'] the index-4 literal reads: the
\* name `config` in the method body is the module-level global
AssessmentCriteriaOf(self, G) == G.config.assessment_criteria

\* mutation of ModuleDataNotAvailable: the generic not-found message
ModuleDataNotAvailable_Generic(title) == Return(<<"Slide not found">>)

\* return f"# {title}\n\nModule data not available"
ModuleDataNotAvailable(title) == Return(<<"#", " ", title, "\n\nModule data not available">>)

generate_module_overview_slide(self, G, title, index, module_data) ==
  IF ~Truthy(module_data) THEN ModuleDataNotAvailable(title)
  ELSE
    LET d == module_data.d
        difficulty0 == Get(d, "difficulty", PyStr("Not specified"))
        difficulty4 == Get(d, "difficulty", PyStr("intermediate"))
        topics == Get(d, "topics", PyList(<<>>))
        criteria == AssessmentCriteriaOf(self, G)
        weights == criteria[difficulty4.s]
        \* the dict literal evaluates every entry, 0 to 4, whatever the index
        content == [i \in 0..4 |->
          CASE i = 0 ->
                 <<"#", " :book: ", title, ": ">> \o Format(Get(d, "title", PyStr("Module")))
                 \o <<"<overview 0: Module Overview>">>
                 \o Format(Get(d, "description", PyStr("No description available")))
                 \o <<"<overview 0: Difficulty Level>", TitleCase(difficulty0.s),
                      "<overview 0: Hands-on Component>",
                      IF Truthy(Get(d, "hands_on", PyBool(FALSE))) THEN ":check: Yes" ELSE ":cross: No",
                      "<overview 0: rest>">>
            [] i = 1 -> <<"#", " :target: ", title, "<overview 1>">>
            [] i = 2 ->
                 <<"#", " :clipboard: ", title, "<overview 2: Deep Dive Topics>">>
                 \o JoinItems("\n", [k \in 1..Len(IterItems(topics)) |-> <<"- **", IterItems(topics)[k], "**">>])
                 \o <<"<overview 2: rest>">>
            [] i = 3 -> <<"#", " :tools: ", title, "<overview 3>">>
            [] i = 4 ->
                 <<"#", " :chart: ", title, "<overview 4: Based on difficulty level>",
                   TitleCase(difficulty4.s),
                   "<overview 4: Understanding (>", ToString(weights.understanding), "%",
                   "<overview 4: Application (>", ToString(weights.application), "%",
                   "<overview 4: Problem Solving (>", ToString(weights.problem_solving), "%",
                   "<overview 4: rest>">>]
    IN IF difficulty0.t # "str" THEN Raise("AttributeError")
       ELSE IF ~Iterable(topics) THEN Raise("TypeError")
       ELSE IF difficulty4.s \notin DOMAIN criteria THEN Raise("KeyError")
       ELSE Return(ContentGet(content, index, title))

\* slide_index >= len(slides), with the 0-based index
IndexTooLarge(slide_index, slides) == slide_index >= Len(slides)

\* slides[slide_index]: Python indexing of a list, negative indices count
\* from the end, IndexError outside -len..len-1
ListIndex(slides, slide_index) ==
  IF slide_index >= 0 /\ slide_index < Len(slides) THEN Return(slides[slide_index + 1])
  ELSE IF slide_index < 0 /\ slide_index >= 0 - Len(slides) THEN Return(slides[Len(slides) + slide_index + 1])
  ELSE Raise("IndexError")

\* mutation of TemplateMissing: only the four built-in names are accepted
TemplateMissing_BuiltinOnly(self, template_type) ==
  template_type \notin DOMAIN self.templates \/ template_type \notin BuiltinTemplates

\* template_type not in self.templates
TemplateMissing(self, template_type) == template_type \notin DOMAIN self.templates

generate_slide(self, G, template_type, slide_index, module_data) ==
  IF TemplateMissing(self, template_type) THEN Return(<<"Template not found">>)
  ELSE
    LET slides == self.templates[template_type].slides
        item == ListIndex(slides, slide_index)
        slide_title == item.value
    IN IF IndexTooLarge(slide_index, slides) THEN Return(<<"Slide not found">>)
       ELSE IF item.kind = "raise" THEN item
       ELSE IF template_type = "introduction" THEN generate_introduction_slide(slide_title, slide_index)
       ELSE IF template_type = "module_overview"
         THEN generate_module_overview_slide(self, G, slide_title, slide_index, module_data)
       ELSE IF template_type = "hands_on_session" THEN generate_hands_on_slide(slide_title, slide_index, module_data)
       ELSE IF template_type = "conclusion" THEN generate_conclusion_slide(slide_title, slide_index)
       ELSE Return(<<"#", " ", slide_title, "\n\nContent for this slide type is being developed...">>)

(***************************************************************************)
(* Progress store.  The persisted document is absent, unreadable, not      *)
(* JSON, or a JSON text; JSON values are tagged records of their own.      *)
(***************************************************************************)
RECURSIVE GCD(_, _)
GCD(a, b) == IF b = 0 THEN a ELSE GCD(b, a % b)

\* a float, kept as the exact fraction num/den in lowest terms
PyFloat(num, den) ==
  LET g == GCD(num, den) IN [t |-> "float", num |-> num \div g, den |-> den \div g]

\* mutation of PercentOf: the share is computed from the list as it was before
\* the append
PercentOf_BeforeAppend(a, b) ==
  IF b = 0 THEN Raise("ZeroDivisionError") ELSE Return(PyFloat((a - 1) * 100, b))

\* a / b * 100 on ints (true division, then the product)
PercentOf(a, b) ==
  IF b = 0 THEN Raise("ZeroDivisionError") ELSE Return(PyFloat(a * 100, b))

\* x in lst
InList(x, lst) == \E i \in 1..Len(lst) : lst[i] = x

JNull == [j |-> "null"]
JString(s) == [j |-> "string", s |-> s]
JBool(b) == [j |-> "bool", b |-> b]
JInt(n) == [j |-> "int", n |-> n]
JReal(num, den) == [j |-> "real", num |-> num, den |-> den]
JArray(a) == [j |-> "array", a |-> a]
JObject(o) == [j |-> "object", o |-> o]

\* mutation of DumpScalar: None is written as the text str() gives for it
DumpScalar_StrOfNone(v) ==
  CASE v.t = "NoneType" -> JString("None")
    [] v.t = "str" -> JString(v.s)
    [] v.t = "bool" -> JBool(v.b)
    [] v.t = "int" -> JInt(v.n)
    [] v.t = "float" -> JReal(v.num, v.den)

\* json.dump of a scalar Python value (None, bool, int, float, str)
DumpScalar(v) ==
  CASE v.t = "NoneType" -> JNull
    [] v.t = "str" -> JString(v.s)
    [] v.t = "bool" -> JBool(v.b)
    [] v.t = "int" -> JInt(v.n)
    [] v.t = "float" -> JReal(v.num, v.den)

\* json.load of a scalar JSON value
LoadScalar(x) ==
  CASE x.j = "null" -> PyNone
    [] x.j = "string" -> PyStr(x.s)
    [] x.j = "bool" -> PyBool(x.b)
    [] x.j = "int" -> PyInt(x.n)
    [] x.j = "real" -> PyFloat(x.num, x.den)

DumpEntry(e) ==
  JObject([timestamp |-> JString(e.timestamp), module |-> DumpScalar(e.module),
           action |-> JString(e.action)])

LoadEntry(x) ==
  [timestamp |-> x.o.timestamp.s, module |-> LoadScalar(x.o.module), action |-> x.o.action.s]

\* json.dump(progress_data, f, indent=2): the JSON text of a Progress record
json_dump(p) ==
  JObject([current_module |-> DumpScalar(p.current_module),
           completed_modules |-> JArray([i \in 1..Len(p.completed_modules) |-> DumpScalar(p.completed_modules[i])]),
           current_progress |-> DumpScalar(p.current_progress),
           skills_acquired |-> JArray([i \in 1..Len(p.skills_acquired) |-> JString(p.skills_acquired[i])]),
           assessments_completed |-> JArray([i \in 1..Len(p.assessments_completed) |-> JString(p.assessments_completed[i])]),
           hands_on_projects |-> JArray([i \in 1..Len(p.hands_on_projects) |-> JString(p.hands_on_projects[i])]),
           learning_path |-> JString(p.learning_path),
           preferences |-> JObject([difficulty_level |-> JString(p.preferences.difficulty_level),
                                    focus_areas |-> JArray([i \in 1..Len(p.preferences.focus_areas) |-> JString(p.preferences.focus_areas[i])]),
                                    hands_on_preference |-> JBool(p.preferences.hands_on_preference)]),
           session_history |-> JArray([i \in 1..Len(p.session_history) |-> DumpEntry(p.session_history[i])]),
           bookmarks |-> JArray([i \in 1..Len(p.bookmarks) |-> JString(p.bookmarks[i])]),
           notes |-> JObject([k \in DOMAIN p.notes |-> JString(p.notes[k])])])

\* json.load(f) of a JSON text holding a Progress document
json_load(x) ==
  [current_module |-> LoadScalar(x.o.current_module),
   completed_modules |-> [i \in 1..Len(x.o.completed_modules.a) |-> LoadScalar(x.o.completed_modules.a[i])],
   current_progress |-> LoadScalar(x.o.current_progress),
   skills_acquired |-> [i \in 1..Len(x.o.skills_acquired.a) |-> x.o.skills_acquired.a[i].s],
   assessments_completed |-> [i \in 1..Len(x.o.assessments_completed.a) |-> x.o.assessments_completed.a[i].s],
   hands_on_projects |-> [i \in 1..Len(x.o.hands_on_projects.a) |-> x.o.hands_on_projects.a[i].s],
   learning_path |-> x.o.learning_path.s,
   preferences |-> [difficulty_level |-> x.o.preferences.o.difficulty_level.s,
                    focus_areas |-> [i \in 1..Len(x.o.preferences.o.focus_areas.a) |-> x.o.preferences.o.focus_areas.a[i].s],
                    hands_on_preference |-> x.o.preferences.o.hands_on_preference.b],
   session_history |-> [i \in 1..Len(x.o.session_history.a) |-> LoadEntry(x.o.session_history.a[i])],
   bookmarks |-> [i \in 1..Len(x.o.bookmarks.a) |-> x.o.bookmarks.a[i].s],
   notes |-> [k \in DOMAIN x.o.notes.o |-> x.o.notes.o[k].s]]

FileMissing == [state |-> "missing"]
FileMalformed == [state |-> "malformed"]
FileJson(text) == [state |-> "json", text |-> text]
\* a document that exists and open() refuses to read
FileUnreadable == [state |-> "unreadable"]

\* module_config.json holding the JSON text of a configuration; the text is
\* named by the value json.load gives for it
ConfigJson(cfg) == [state |-> "json", value |-> cfg]

\* what module_config.json can be when the program starts
ConfigFiles == {FileMissing, FileMalformed} \cup {ConfigJson(c) : c \in Configs}

\* mutation of load_config: a configuration that cannot be read is replaced
\* by an empty one, as load_user_progress does for the progress document
load_config_Defaulting(file) ==
  IF file.state = "json" THEN Return(file.value) ELSE Return(EMPTY_MODULE_CONFIG)

\* load_config(): open and json.load with nothing caught
load_config(file) ==
  CASE file.state = "missing" -> Raise("FileNotFoundError")
    [] file.state = "malformed" -> Raise("JSONDecodeError")
    [] file.state = "json" -> Return(file.value)

\* the record of the `except:` branch
DefaultProgress ==
  [current_module |-> PyNone,
   completed_modules |-> <<>>,
   current_progress |-> PyInt(0),
   skills_acquired |-> <<>>,
   assessments_completed |-> <<>>,
   hands_on_projects |-> <<>>,
   learning_path |-> "custom",
   preferences |-> [difficulty_level |-> "intermediate", focus_areas |-> <<>>, hands_on_preference |-> TRUE],
   session_history |-> <<>>,
   bookmarks |-> <<>>,
   notes |-> <<>>]

\* mutation of load_user_progress: only a missing document gives the
\* default record as it is; any other read failure gives a beginner's
load_user_progress_ByFailure(file) ==
  CASE file.state = "json" -> json_load(file.text)
    [] file.state = "missing" -> DefaultProgress
    [] OTHER -> [DefaultProgress EXCEPT !.preferences.difficulty_level = "beginner"]

load_user_progress(file) ==
  IF file.state = "json" THEN json_load(file.text) ELSE DefaultProgress

\* a progress document written by an earlier session
SAMPLE_USER_PROGRESS ==
  [current_module |-> PyStr("m1"),
   completed_modules |-> <<PyStr("m2")>>,
   current_progress |-> PyFloat(51, 2),
   skills_acquired |-> <<"t2", "t9">>,
   assessments_completed |-> <<"a1">>,
   hands_on_projects |-> <<"p1">>,
   learning_path |-> "intermediate",
   preferences |-> [difficulty_level |-> "intermediate", focus_areas |-> <<"automation">>, hands_on_preference |-> TRUE],
   session_history |-> <<[timestamp |-> "T0", module |-> PyStr("m2"), action |-> "complete"]>>,
   bookmarks |-> <<"b1">>,
   notes |-> [k \in {"general"} |-> "practice"]]

InitialFiles == {FileMissing, FileJson(json_dump(SAMPLE_USER_PROGRESS))}

\* what user_progress.json can be when a process starts
ProgressFiles == InitialFiles \cup {FileUnreadable, FileMalformed}

\* what datetime.now().isoformat() can give
Timestamps == {"T1"}

ModuleIds == {PyStr("m1"), PyStr("m2"), PyStr("mX"), PyNone}

Actions == {"start", "complete", "pause"}

RECURSIVE MergeTopics(_, _)
\* mutation of MergeTopics: every topic is appended, present or not
MergeTopics_AppendAll(skills, topics) == skills \o topics

\* for topic in topics: if topic not in skills: skills.append(topic)
MergeTopics(skills, topics) ==
  IF Len(topics) = 0 THEN skills
  ELSE MergeTopics(IF InList(Head(topics), skills) THEN skills ELSE Append(skills, Head(topics)),
                   Tail(topics))

\* mutation of ModuleLookup: an id that is not in the table gets a
\* placeholder record instead of the empty one
ModuleLookup_Placeholder(cfg, module_id) ==
  IF module_id.t = "str" /\ module_id.s \in DOMAIN cfg.modules THEN cfg.modules[module_id.s]
  ELSE [f \in {"title"} |-> PyStr("Unknown Module")]

\* config['modules'].get(module_id, {})
ModuleLookup(cfg, module_id) ==
  IF module_id.t = "str" /\ module_id.s \in DOMAIN cfg.modules THEN cfg.modules[module_id.s] ELSE <<>>

\* mutation of NotYetCompleted: the membership test looks at current_module
NotYetCompleted_CurrentOnly(p, module_id) == module_id # p.current_module

\* module_id not in user_progress['completed_modules']
NotYetCompleted(p, module_id) == ~InList(module_id, p.completed_modules)

\* mutation of StartModule: a module already completed is not started again
StartModule_SkipCompleted(p, module_id) ==
  IF InList(module_id, p.completed_modules) THEN p ELSE [p EXCEPT !.current_module = module_id]

\* mutation of StartModule: starting a module sets the percentage back to 0
StartModule_ResetProgress(p, module_id) ==
  [p EXCEPT !.current_module = module_id, !.current_progress = PyInt(0)]

\* user_progress['current_module'] = module_id
StartModule(p, module_id) == [p EXCEPT !.current_module = module_id]

\* mutation of AppendCompleted: the append looks at the list once more
AppendCompleted_Recheck(p, module_id) ==
  IF InList(module_id, p.completed_modules) THEN p
  ELSE [p EXCEPT !.completed_modules = Append(@, module_id)]

\* user_progress['completed_modules'].append(module_id)
AppendCompleted(p, module_id) == [p EXCEPT !.completed_modules = Append(@, module_id)]

\* mutation of ApplyAction: the percentage and the skills are set on every
\* "complete", outside the membership test
ApplyAction_RecomputeAlways(p, G, module_id, action) ==
  IF action = "complete" THEN
    LET p1 == IF NotYetCompleted(p, module_id) THEN AppendCompleted(p, module_id) ELSE p
        pct == PercentOf(Len(p1.completed_modules), Cardinality(DOMAIN G.config.modules))
        topics == Get(ModuleLookup(G.config, module_id), "topics", PyList(<<>>))
    IN IF pct.kind = "raise" THEN [progress |-> p1, raised |-> pct.exc]
       ELSE [progress |-> [p1 EXCEPT !.current_progress = pct.value,
                                     !.skills_acquired = MergeTopics(@, topics.l)],
             raised |-> ""]
  ELSE IF action = "start" THEN [progress |-> StartModule(p, module_id), raised |-> ""]
  ELSE [progress |-> p, raised |-> ""]

\* the `if action == "complete"` / `elif action == "start"` part: the record
\* after it and the exception that ended it, if any
ApplyAction(p, G, module_id, action) ==
  IF action = "complete" THEN
    IF NotYetCompleted(p, module_id) THEN
      LET p1 == AppendCompleted(p, module_id)
          pct == PercentOf(Len(p1.completed_modules), Cardinality(DOMAIN G.config.modules))
          topics == Get(ModuleLookup(G.config, module_id), "topics", PyList(<<>>))
      IN IF pct.kind = "raise" THEN [progress |-> p1, raised |-> pct.exc]
         ELSE [progress |-> [p1 EXCEPT !.current_progress = pct.value,
                                       !.skills_acquired = MergeTopics(@, topics.l)],
               raised |-> ""]
    ELSE [progress |-> p, raised |-> ""]
  ELSE IF action = "start" THEN [progress |-> StartModule(p, module_id), raised |-> ""]
  ELSE [progress |-> p, raised |-> ""]

\* mutation of AppendHistory: only the actions the function acts on are
\* recorded
AppendHistory_KnownActions(p, module_id, action, now) ==
  IF action \in {"start", "complete"}
  THEN [p EXCEPT !.session_history = Append(@, [timestamp |-> now, module |-> module_id, action |-> action])]
  ELSE p

\* user_progress['session_history'].append({...})
AppendHistory(p, module_id, action, now) ==
  [p EXCEPT !.session_history = Append(@, [timestamp |-> now, module |-> module_id, action |-> action])]

\* save_user_progress: open(..., 'w') can fail before the document is touched
\* ("denied"), the write can fail after the document was truncated ("broken"),
\* or the whole text is written ("written")
SaveOutcomes == {"written", "denied", "broken"}

\* mutation of save_user_progress: a document that exists is left as it is
save_user_progress_KeepExisting(file, progress_data, outcome) ==
  CASE outcome = "written" ->
         [file |-> IF file.state = "json" THEN file ELSE FileJson(json_dump(progress_data)),
          result |-> Return(PyNone)]
    [] outcome = "denied" -> [file |-> file, result |-> Raise("PermissionError")]
    [] outcome = "broken" -> [file |-> FileMalformed, result |-> Raise("OSError")]

save_user_progress(file, progress_data, outcome) ==
  CASE outcome = "written" -> [file |-> FileJson(json_dump(progress_data)), result |-> Return(PyNone)]
    [] outcome = "denied" -> [file |-> file, result |-> Raise("PermissionError")]
    [] outcome = "broken" -> [file |-> FileMalformed, result |-> Raise("OSError")]

\* mutation of update_user_progress: the call first reads the document again
\* and applies the update to what it holds, so nothing another writer saved
\* is overwritten
update_user_progress_Reloading(G, file, module_id, action, now, outcome) ==
  LET current == [G EXCEPT !.user_progress = load_user_progress(file)]
      step1 == ApplyAction(current.user_progress, current, module_id, action)
      p2 == AppendHistory(step1.progress, module_id, action, now)
      saved == save_user_progress(file, p2, outcome)
  IN IF step1.raised # "" THEN [user_progress |-> step1.progress, file |-> file, result |-> Raise(step1.raised)]
     ELSE IF saved.result.kind = "raise" THEN [user_progress |-> p2, file |-> saved.file, result |-> saved.result]
     ELSE [user_progress |-> p2, file |-> saved.file,
           result |-> Return(<<"Progress updated: ", action, " for module ">> \o Format(module_id))]

\* mutation of update_user_progress: when the save fails the record is put
\* back as it was before the call
update_user_progress_RollBack(G, file, module_id, action, now, outcome) ==
  LET step1 == ApplyAction(G.user_progress, G, module_id, action)
      p2 == AppendHistory(step1.progress, module_id, action, now)
      saved == save_user_progress(file, p2, outcome)
  IN IF step1.raised # "" THEN [user_progress |-> step1.progress, file |-> file, result |-> Raise(step1.raised)]
     ELSE IF saved.result.kind = "raise"
       THEN [user_progress |-> G.user_progress, file |-> saved.file, result |-> saved.result]
     ELSE [user_progress |-> p2, file |-> saved.file,
           result |-> Return(<<"Progress updated: ", action, " for module ">> \o Format(module_id))]

\* update_user_progress(module_id, action): the in-memory record, the
\* document and the outcome of the call
update_user_progress(G, file, module_id, action, now, outcome) ==
  LET step1 == ApplyAction(G.user_progress, G, module_id, action)
      p2 == AppendHistory(step1.progress, module_id, action, now)
      saved == save_user_progress(file, p2, outcome)
  IN IF step1.raised # "" THEN [user_progress |-> step1.progress, file |-> file, result |-> Raise(step1.raised)]
     ELSE IF saved.result.kind = "raise" THEN [user_progress |-> p2, file |-> saved.file, result |-> saved.result]
     ELSE [user_progress |-> p2, file |-> saved.file,
           result |-> Return(<<"Progress updated: ", action, " for module ">> \o Format(module_id))]

\* mutation of generate_presentation_slide: with no module selected the
\* module the user is working on (user_progress['current_module']) is shown
generate_presentation_slide_CurrentModule(G, module_id, template_type, slide_index) ==
  LET chosen == IF Truthy(module_id) THEN module_id ELSE G.user_progress.current_module
      module_data == IF Truthy(chosen) THEN PyDict(ModuleLookup(G.config, chosen)) ELSE PyNone
  IN generate_slide(G.presentation_gen, G, template_type, slide_index, module_data)

\* generate_presentation_slide(module_id, template_type, slide_index)
generate_presentation_slide(G, module_id, template_type, slide_index) ==
  LET module_data == IF Truthy(module_id) THEN PyDict(ModuleLookup(G.config, module_id)) ELSE PyNone
  IN generate_slide(G.presentation_gen, G, template_type, slide_index, module_data)

\* the module namespace of app.py in the current state
Globals == [config |-> config, user_progress |-> user_progress, presentation_gen |-> presentation_gen]

NoCall == [op |-> "none"]

\* a name of the module namespace before its assignment has run
Unloaded == [state |-> "unloaded"]

\* the worker threads that run the event callbacks of the portal
Workers == {"w1", "w2"}

\* a worker that runs no callback
Idle == [pc |-> "idle"]

NoCalls == [w \in Workers |-> Idle]

\* one process, its callbacks one at a time: no second process holds a
\* Progress record and no callback is in progress between two steps
SingleWriter == peer_progress = Unloaded /\ calls = NoCalls

(***************************************************************************)
(* The class used on its own, as the tests do: a generator constructed     *)
(* with any configuration, whatever module_config.json holds, and one call *)
(* generate_slide(template_type, slide_index, module_data).                *)
(***************************************************************************)
InitResolver ==
  /\ config \in Configs
  /\ \E c \in Configs : presentation_gen = PresentationGenerator(c)
  /\ progress_file \in InitialFiles
  /\ user_progress = load_user_progress(progress_file)
  /\ request \in [template_type : TemplateTypes, slide_index : SlideIndexes, module_data : ModuleDatas]
  /\ slide = NoCall
  /\ reply = NoCall
  /\ SingleWriter

GenerateSlide ==
  /\ slide' = [op |-> "generate_slide",
               args |-> request,
               result |-> generate_slide(presentation_gen, Globals, request.template_type,
                                         request.slide_index, request.module_data)]
  /\ UNCHANGED <<config, presentation_gen, user_progress, progress_file, request, reply, peer_progress, calls>>

NextResolver == GenerateSlide

SpecResolver == InitResolver /\ [][NextResolver]_vars

(***************************************************************************)
(* The progress store: app.py after its module-level initialisation, and   *)
(* update_user_progress called one call at a time.                         *)
(***************************************************************************)
Init ==
  /\ config \in Configs
  /\ presentation_gen = PresentationGenerator(config)
  /\ progress_file \in InitialFiles
  /\ user_progress = load_user_progress(progress_file)
  /\ request = NoCall
  /\ slide = NoCall
  /\ reply = NoCall
  /\ SingleWriter

UpdateStep(bound, module_id, action, now, outcome) ==
  /\ Len(user_progress.session_history) < bound
  /\ Len(user_progress.completed_modules) < MaxCompleted
  /\ LET r == update_user_progress(Globals, progress_file, module_id, action, now, outcome)
     IN /\ user_progress' = r.user_progress
        /\ progress_file' = r.file
        /\ reply' = [op |-> "update_user_progress", args |-> [module_id |-> module_id, action |-> action],
                     result |-> r.result]
  /\ UNCHANGED <<config, presentation_gen, request, slide, peer_progress, calls>>

UpdateUserProgress(module_id, action, now, outcome) ==
  UpdateStep(MaxHistory, module_id, action, now, outcome)

Next ==
  \E module_id \in ModuleIds, action \in Actions, now \in Timestamps, outcome \in SaveOutcomes :
    UpdateUserProgress(module_id, action, now, outcome)

Spec == Init /\ [][Next]_vars

(***************************************************************************)
(* The portal: the three buttons of the presentation tab, event callbacks  *)
(* one at a time.                                                          *)
(***************************************************************************)
\* the choices of template_dropdown
TemplateChoices == {"introduction", "module_overview", "hands_on_session", "conclusion"}

\* the ends of slide_number, gr.Slider(minimum=0, maximum=4)
SliderMinimum == 0
SliderMaximum == 4
SliderValues == {SliderMinimum, SliderMaximum}

\* generate_btn.click
GenerateBtnClick(module_id, template_type, slide_index) ==
  /\ slide' = [op |-> "generate_presentation_slide",
               args |-> [module_id |-> module_id, template_type |-> template_type, slide_index |-> slide_index],
               result |-> generate_presentation_slide(Globals, module_id, template_type, slide_index)]
  /\ UNCHANGED <<config, presentation_gen, user_progress, progress_file, request, reply, peer_progress, calls>>

\* start_btn.click
StartBtnClick(module_id, now, outcome) == UpdateStep(MaxPortalHistory, module_id, "start", now, outcome)

\* complete_btn.click
CompleteBtnClick(module_id, now, outcome) == UpdateStep(MaxPortalHistory, module_id, "complete", now, outcome)

\* the values of module_dropdown: no selection, or an id of get_module_list()
ModuleChoices == {PyNone} \cup {PyStr(id) : id \in DOMAIN config.modules}

NextPortal ==
  \/ \E module_id \in ModuleChoices, template_type \in TemplateChoices, slide_index \in SliderValues :
       GenerateBtnClick(module_id, template_type, slide_index)
  \/ \E module_id \in ModuleChoices, now \in Timestamps, outcome \in SaveOutcomes :
       StartBtnClick(module_id, now, outcome)
  \/ \E module_id \in ModuleChoices, now \in Timestamps, outcome \in SaveOutcomes :
       CompleteBtnClick(module_id, now, outcome)

SpecPortal == Init /\ [][NextPortal]_vars

(***************************************************************************)
(* The handler of generate_btn on its own: generate_presentation_slide     *)
(* with the value of module_dropdown absent, empty, an id of the module    *)
(* table or an id that is not in it, any template name and every value of  *)
(* slide_number.                                                           *)
(***************************************************************************)
\* the module ids the handler is given
Selections == ModuleIds \cup {PyStr("")}

\* slide_number, gr.Slider(minimum=0, maximum=4, step=1)
SliderRange == SliderMinimum..SliderMaximum

NextHandler ==
  \E module_id \in Selections, template_type \in TemplateTypes, slide_index \in SliderRange :
    GenerateBtnClick(module_id, template_type, slide_index)

SpecHandler == Init /\ [][NextHandler]_vars

(***************************************************************************)
(* The progress store of a first session: no progress document exists when *)
(* app.py is imported, so the Progress record starts as the default one.   *)
(***************************************************************************)
InitFresh ==
  /\ Init
  /\ progress_file = FileMissing

SpecFresh == InitFresh /\ [][Next]_vars

(***************************************************************************)
(* Sessions: the process is started (app.py is imported: lines 44, 45 and  *)
(* 689 run), update_user_progress is called one call at a time, the        *)
(* process ends, and the next process starts from the documents left.      *)
(***************************************************************************)
InitSession ==
  /\ request \in [op : {"import app"}, config_file : ConfigFiles]
  /\ progress_file \in ProgressFiles
  /\ config = Unloaded
  /\ presentation_gen = Unloaded
  /\ user_progress = Unloaded
  /\ slide = NoCall
  /\ reply = NoCall
  /\ SingleWriter

\* config = load_config(); user_progress = load_user_progress();
\* presentation_gen = PresentationGenerator(config)
ImportApp ==
  /\ config = Unloaded
  /\ LET loaded == load_config(request.config_file)
     IN IF loaded.kind = "raise"
        THEN /\ reply' = [op |-> "import app", result |-> loaded]
             /\ UNCHANGED <<config, presentation_gen, user_progress>>
        ELSE /\ config' = loaded.value
             /\ user_progress' = load_user_progress(progress_file)
             /\ presentation_gen' = PresentationGenerator(loaded.value)
             /\ reply' = [op |-> "import app", result |-> Return(PyNone)]
  /\ UNCHANGED <<progress_file, request, slide, peer_progress, calls>>

SessionUpdate(module_id, action, now, outcome) ==
  /\ config # Unloaded
  /\ UpdateStep(MaxHistory, module_id, action, now, outcome)

\* the process ends: its namespace is gone, the documents stay
ExitApp ==
  /\ config # Unloaded
  /\ config' = Unloaded
  /\ presentation_gen' = Unloaded
  /\ user_progress' = Unloaded
  /\ reply' = [op |-> "exit"]
  /\ UNCHANGED <<progress_file, request, slide, peer_progress, calls>>

NextSession ==
  \/ ImportApp
  \/ \E module_id \in ModuleIds, action \in Actions, now \in Timestamps, outcome \in SaveOutcomes :
       SessionUpdate(module_id, action, now, outcome)
  \/ ExitApp

SpecSession == InitSession /\ [][NextSession]_vars

(***************************************************************************)
(* Two writers: two processes of app.py that were started on the same      *)
(* progress document, each with a user_progress of its own, and their      *)
(* update calls in any order.                                              *)
(***************************************************************************)
\* the module namespace of the second process
PeerGlobals == [config |-> config, user_progress |-> peer_progress, presentation_gen |-> presentation_gen]

InitWriters ==
  /\ config \in Configs
  /\ presentation_gen = PresentationGenerator(config)
  /\ progress_file \in InitialFiles
  /\ user_progress = load_user_progress(progress_file)
  /\ peer_progress = load_user_progress(progress_file)
  /\ request = NoCall
  /\ slide = NoCall
  /\ reply = NoCall
  /\ calls = NoCalls

\* update_user_progress in the first process
WriterUpdate(module_id, action, now, outcome) ==
  UpdateStep(MaxWriterHistory, module_id, action, now, outcome)

\* update_user_progress in the second process
PeerUpdate(module_id, action, now, outcome) ==
  /\ Len(peer_progress.session_history) < MaxWriterHistory
  /\ Len(peer_progress.completed_modules) < MaxCompleted
  /\ LET r == update_user_progress(PeerGlobals, progress_file, module_id, action, now, outcome)
     IN /\ peer_progress' = r.user_progress
        /\ progress_file' = r.file
        /\ reply' = [op |-> "update_user_progress", args |-> [module_id |-> module_id, action |-> action],
                     result |-> r.result]
  /\ UNCHANGED <<config, presentation_gen, user_progress, request, slide, calls>>

NextWriters ==
  \/ \E module_id \in ModuleChoices, action \in {"start", "complete"}, now \in Timestamps,
        outcome \in SaveOutcomes : WriterUpdate(module_id, action, now, outcome)
  \/ \E module_id \in ModuleChoices, action \in {"start", "complete"}, now \in Timestamps,
        outcome \in SaveOutcomes : PeerUpdate(module_id, action, now, outcome)

SpecWriters == InitWriters /\ [][NextWriters]_vars

(***************************************************************************)
(* Callbacks in worker threads: the start and complete buttons call        *)
(* update_user_progress in the threads of Workers, on the one              *)
(* user_progress of the process, and the statements of the calls           *)
(* interleave.  A call in progress is at the statement it runs next.       *)
(***************************************************************************)
Running(pc, module_id, action) == [pc |-> pc, module_id |-> module_id, action |-> action]

ActiveCalls == Cardinality({w \in Workers : calls[w] # Idle})

\* the call, and the tests of lines 751, 752 and 762
ThreadCall(w, module_id, action) ==
  /\ calls[w] = Idle
  /\ Len(user_progress.session_history) + ActiveCalls < MaxThreadCalls
  /\ Len(user_progress.completed_modules) < MaxCompleted
  /\ calls' = [calls EXCEPT ![w] =
                 Running(IF action = "complete"
                         THEN IF NotYetCompleted(user_progress, module_id) THEN "append" ELSE "history"
                         ELSE IF action = "start" THEN "start" ELSE "history",
                         module_id, action)]
  /\ UNCHANGED <<config, presentation_gen, user_progress, progress_file, request, slide, reply, peer_progress>>

\* line 753
ThreadAppend(w) ==
  /\ calls[w].pc = "append"
  /\ user_progress' = AppendCompleted(user_progress, calls[w].module_id)
  /\ calls' = [calls EXCEPT ![w].pc = "progress"]
  /\ UNCHANGED <<config, presentation_gen, progress_file, request, slide, reply, peer_progress>>

\* line 754
ThreadProgress(w) ==
  /\ calls[w].pc = "progress"
  /\ LET pct == PercentOf(Len(user_progress.completed_modules), Cardinality(DOMAIN config.modules))
     IN IF pct.kind = "raise"
        THEN /\ calls' = [calls EXCEPT ![w] = Idle]
             /\ reply' = [op |-> "update_user_progress",
                          args |-> [module_id |-> calls[w].module_id, action |-> calls[w].action],
                          result |-> pct]
             /\ UNCHANGED user_progress
        ELSE /\ user_progress' = [user_progress EXCEPT !.current_progress = pct.value]
             /\ calls' = [calls EXCEPT ![w].pc = "skills"]
             /\ UNCHANGED reply
  /\ UNCHANGED <<config, presentation_gen, progress_file, request, slide, peer_progress>>

\* lines 757 to 760
ThreadSkills(w) ==
  /\ calls[w].pc = "skills"
  /\ user_progress' =
       [user_progress EXCEPT !.skills_acquired =
          MergeTopics(@, Get(ModuleLookup(config, calls[w].module_id), "topics", PyList(<<>>)).l)]
  /\ calls' = [calls EXCEPT ![w].pc = "history"]
  /\ UNCHANGED <<config, presentation_gen, progress_file, request, slide, reply, peer_progress>>

\* line 763
ThreadStart(w) ==
  /\ calls[w].pc = "start"
  /\ user_progress' = StartModule(user_progress, calls[w].module_id)
  /\ calls' = [calls EXCEPT ![w].pc = "history"]
  /\ UNCHANGED <<config, presentation_gen, progress_file, request, slide, reply, peer_progress>>

\* lines 765 to 770
ThreadHistory(w, now) ==
  /\ calls[w].pc = "history"
  /\ user_progress' = AppendHistory(user_progress, calls[w].module_id, calls[w].action, now)
  /\ calls' = [calls EXCEPT ![w].pc = "save"]
  /\ UNCHANGED <<config, presentation_gen, progress_file, request, slide, reply, peer_progress>>

\* lines 772 and 773
ThreadSave(w, outcome) ==
  /\ calls[w].pc = "save"
  /\ LET saved == save_user_progress(progress_file, user_progress, outcome)
     IN /\ progress_file' = saved.file
        /\ reply' = [op |-> "update_user_progress",
                     args |-> [module_id |-> calls[w].module_id, action |-> calls[w].action],
                     result |-> IF saved.result.kind = "raise" THEN saved.result
                                ELSE Return(<<"Progress updated: ", calls[w].action, " for module ">>
                                            \o Format(calls[w].module_id))]
  /\ calls' = [calls EXCEPT ![w] = Idle]
  /\ UNCHANGED <<config, presentation_gen, user_progress, request, slide, peer_progress>>

NextThreads ==
  \/ \E w \in Workers, module_id \in ModuleChoices, action \in {"start", "complete"} :
       ThreadCall(w, module_id, action)
  \/ \E w \in Workers : ThreadAppend(w)
  \/ \E w \in Workers : ThreadProgress(w)
  \/ \E w \in Workers : ThreadSkills(w)
  \/ \E w \in Workers : ThreadStart(w)
  \/ \E w \in Workers, now \in Timestamps : ThreadHistory(w, now)
  \/ \E w \in Workers, outcome \in SaveOutcomes : ThreadSave(w, outcome)

SpecThreads == Init /\ [][NextThreads]_vars

(***************************************************************************)
(* Properties of the resolver, over the calls of SpecResolver.             *)
(***************************************************************************)
Called == slide.op = "generate_slide"

TemplateKnown == Called /\ slide.args.template_type \in DOMAIN presentation_gen.templates

TitlesOf == presentation_gen.templates[slide.args.template_type].slides

InBounds == TemplateKnown /\ slide.args.slide_index \in 0..(Len(TitlesOf) - 1)

TemplateNotFound == Return(<<"Template not found">>)

SlideNotFound == Return(<<"Slide not found">>)

\* the module records of the configuration the generator was constructed with
OwnModules == {PyDict(presentation_gen.config.modules[id]) : id \in DOMAIN presentation_gen.config.modules}

RECURSIVE Percentages(_)
\* the fragments of a text that a "%" follows, in order
Percentages(text) ==
  IF Len(text) < 2 THEN <<>>
  ELSE IF text[2] = "%" THEN <<text[1]>> \o Percentages(Tail(Tail(text)))
  ELSE Percentages(Tail(text))

\* C1: generate_slide returns a string and never raises, for every
\* template_type, every integer slide_index and every module_data, absent,
\* empty or malformed.
C1_AlwaysReturnsString == Called => slide.result.kind = "return"

\* C2: generate_slide returns exactly "Template not found" when template_type
\* is not a key of the template table, whatever the index and the module data,
\* and never returns it when template_type is a key.
C2_TemplateNotFoundIffAbsent ==
  Called => (slide.result = TemplateNotFound
             <=> slide.args.template_type \notin DOMAIN presentation_gen.templates)

C2_Witness ==
  /\ Called
  /\ DOMAIN presentation_gen.templates # {}
  /\ slide.args.template_type = "nonexistent_template"
  /\ slide.args.slide_index < 0
  /\ slide.args.module_data = malformed_module
  /\ slide.result = TemplateNotFound

\* C3: for a template_type of the template table, generate_slide returns
\* exactly "Slide not found" for every slide_index that is not in
\* 0..len(slides)-1, the negative ones included.
C3_SlideNotFoundOutsideBounds ==
  (TemplateKnown /\ ~InBounds) => slide.result = SlideNotFound

\* C4: for "module_overview" in the template table, an in-bounds slide_index
\* and module_data None, generate_slide returns the heading of the slide title
\* followed by "Module data not available", at every in-bounds index.
C4_ModuleDataNotAvailable ==
  (InBounds /\ slide.args.template_type = "module_overview" /\ slide.args.module_data = PyNone)
    => slide.result =
         Return(<<"#", " ", TitlesOf[slide.args.slide_index + 1], "\n\nModule data not available">>)

C4_Witness ==
  /\ InBounds
  /\ slide.args.template_type = "module_overview"
  /\ slide.args.module_data = PyNone
  /\ slide.args.slide_index = 4
  /\ slide.result = Return(<<"#", " ", "Assessment Criteria", "\n\nModule data not available">>)

C6_AssessmentWeightsShown ==
  LET d == slide.args.module_data.d
      level == Get(d, "difficulty", PyStr("intermediate"))
      criteria == presentation_gen.config.assessment_criteria
  IN (/\ InBounds
      /\ slide.args.template_type = "module_overview"
      /\ slide.args.slide_index = 4
      /\ slide.args.module_data \in OwnModules \cup {PyDict([t \in {"title"} |-> PyStr("Only Title")])}
      /\ level.s \in DOMAIN criteria)
     => /\ slide.result.kind = "return"
        /\ Percentages(slide.result.value) =
             <<ToString(criteria[level.s].understanding), ToString(criteria[level.s].application),
               ToString(criteria[level.s].problem_solving)>>

\* C7: the output of generate_slide is a function of its arguments and of the
\* configuration the generator was constructed with only: it is what the call
\* returns when the process-wide configuration is the generator's own and the
\* Progress record is the default one.
C7_OwnConfigurationOnly ==
  Called => slide.result =
    generate_slide(presentation_gen,
                   [Globals EXCEPT !.config = presentation_gen.config, !.user_progress = DefaultProgress],
                   slide.args.template_type, slide.args.slide_index, slide.args.module_data)

(***************************************************************************)
(* Properties of the portal and of the progress store.                     *)
(***************************************************************************)
\* C8: a generate_presentation_slide call leaves the configuration, the
\* Progress record and the persisted document unchanged, and a call with the
\* arguments of the call before it returns the same output, whatever updates
\* ran in between.
C8_ResolverIdempotent ==
  [][ /\ (slide' # slide => UNCHANGED <<config, presentation_gen, user_progress, progress_file>>)
      /\ (slide.op = "generate_presentation_slide" /\ slide'.args = slide.args)
           => slide'.result = slide.result ]_vars

C8_Witness ==
  /\ slide.op = "generate_presentation_slide"
  /\ slide.args = [module_id |-> PyNone, template_type |-> "module_overview", slide_index |-> 0]
  /\ slide.result = Return(<<"#", " ", "Module Introduction", "\n\nModule data not available">>)
  /\ reply.op = "update_user_progress"
  /\ reply.result.kind = "return"
  /\ user_progress.current_module = PyStr("m1")
  /\ Len(user_progress.session_history) > 0

\* C9: update(m, "start") sets current_module to m and appends exactly one
\* session-history entry, whose module is m and whose action is "start".
C9_StartSetsCurrentModule ==
  [][ (reply'.op = "update_user_progress" /\ reply'.args.action = "start")
        => LET before == user_progress.session_history
               after == user_progress'.session_history
           IN /\ user_progress'.current_module = reply'.args.module_id
              /\ Len(after) = Len(before) + 1
              /\ SubSeq(after, 1, Len(before)) = before
              /\ after[Len(after)].module = reply'.args.module_id
              /\ after[Len(after)].action = "start" ]_vars

C9_Witness ==
  /\ reply.op = "update_user_progress"
  /\ reply.args = [module_id |-> PyStr("m2"), action |-> "start"]
  /\ user_progress.current_module = PyStr("m2")
  /\ InList(PyStr("m2"), user_progress.completed_modules)
  /\ Len(user_progress.session_history) = 2
  /\ user_progress.session_history[2].action = "start"

\* C10: completed_modules holds no module twice, in every state reached from a
\* duplicate-free Progress record by update calls that run one at a time.
C10_NoDuplicateCompleted ==
  \A i, j \in 1..Len(user_progress.completed_modules) :
    i # j => user_progress.completed_modules[i] # user_progress.completed_modules[j]

C10_Witness ==
  /\ reply.op = "update_user_progress"
  /\ reply.args = [module_id |-> PyStr("m1"), action |-> "complete"]
  /\ Len(user_progress.session_history) = 2
  /\ \A i \in 1..2 : /\ user_progress.session_history[i].module = PyStr("m1")
                     /\ user_progress.session_history[i].action = "complete"
  /\ user_progress.completed_modules = <<PyStr("m1")>>

(***************************************************************************)
(* Properties of the Progress record, over the update calls of a session.  *)
(***************************************************************************)
Updated == reply.op = "update_user_progress"

\* the number a Python int or float stands for, as a fraction
NumOf(v) == IF v.t = "int" THEN [num |-> v.n, den |-> 1] ELSE [num |-> v.num, den |-> v.den]

\* a == b on Python numbers
NumEq(a, b) == NumOf(a).num * NumOf(b).den = NumOf(b).num * NumOf(a).den

\* 0 <= v <= 100
IsPercentage(v) == 0 <= NumOf(v).num /\ NumOf(v).num <= 100 * NumOf(v).den

\* len(config['modules'])
ModuleCount == Cardinality(DOMAIN config.modules)

\* C11: current_progress is in [0,100] in every state reached from the
\* default Progress record by update calls with any module id (of the module
\* table, absent from it, None) and any action.
C11_ProgressWithinRange == IsPercentage(user_progress.current_progress)

\* the update call of a step appends its module id to completed_modules
FirstTimeComplete ==
  /\ reply'.args.action = "complete"
  /\ ~InList(reply'.args.module_id, user_progress.completed_modules)

\* C12: from the default Progress record and over a non-empty module table,
\* current_progress equals len(completed_modules) / len(modules) * 100 in
\* every state; completing the first module of N gives 1/N*100, and a call
\* that is not a first-time "complete" leaves current_progress as it was.
C12_ProgressIsCompletedShare ==
  /\ [](ModuleCount > 0 =>
          NumEq(user_progress.current_progress,
                PyFloat(Len(user_progress.completed_modules) * 100, ModuleCount)))
  /\ [][ (ModuleCount > 0 /\ reply'.op = "update_user_progress") =>
           /\ (FirstTimeComplete /\ user_progress.completed_modules = <<>>)
                => user_progress'.current_progress = PyFloat(100, ModuleCount)
           /\ ~FirstTimeComplete
                => user_progress'.current_progress = user_progress.current_progress ]_vars

C12_Witness ==
  /\ Updated
  /\ ModuleCount = 3
  /\ reply.args = [module_id |-> PyStr("m1"), action |-> "pause"]
  /\ user_progress.completed_modules = <<PyStr("m1")>>
  /\ user_progress.current_progress = PyFloat(100, 3)
  /\ Len(user_progress.session_history) = 2
  /\ user_progress.session_history[1].action = "complete"

\* no value occurs twice in lst
NoDuplicates(lst) == \A i, j \in 1..Len(lst) : i # j => lst[i] # lst[j]

\* C13: after update(m, "complete") for a module m of the module table that
\* was not completed, every topic of m is in skills_acquired; skills_acquired
\* never holds a topic twice, and the entries it had keep their order and
\* position.
C13_SkillsMergedWithoutDuplicates ==
  /\ [] NoDuplicates(user_progress.skills_acquired)
  /\ [][ reply'.op = "update_user_progress" =>
           LET before == user_progress.skills_acquired
               after == user_progress'.skills_acquired
               m == reply'.args.module_id
           IN /\ Len(after) >= Len(before)
              /\ SubSeq(after, 1, Len(before)) = before
              /\ (FirstTimeComplete /\ m.t = "str" /\ m.s \in DOMAIN config.modules)
                   => \A i \in 1..Len(config.modules[m.s].topics.l) :
                        InList(config.modules[m.s].topics.l[i], after) ]_vars

C13_Witness ==
  /\ Updated
  /\ reply.args = [module_id |-> PyStr("m1"), action |-> "complete"]
  /\ "m1" \in DOMAIN config.modules
  /\ config.modules["m1"].topics.l = <<"t1", "t1", "t3">>
  /\ user_progress.skills_acquired = <<"t2", "t9", "t1", "t3">>

\* the update call of a step appended one entry for itself to session_history
\* and left the entries before it as they were
OneEntryAppended ==
  LET before == user_progress.session_history
      after == user_progress'.session_history
  IN /\ Len(after) = Len(before) + 1
     /\ SubSeq(after, 1, Len(before)) = before
     /\ after[Len(after)].module = reply'.args.module_id
     /\ after[Len(after)].action = reply'.args.action
     /\ after[Len(after)].timestamp \in Timestamps

\* C14: session_history is append-only: every update call, whatever its
\* module id and action, a repeated "complete" included, appends exactly one
\* entry with the call's module id and action at the end and leaves every
\* earlier entry in place.
C14_HistoryAppendOnly ==
  [][ reply'.op = "update_user_progress" => OneEntryAppended ]_vars

\* the same for the calls that do not end in ZeroDivisionError
C14_HistoryAppendOnlyUnlessDivision ==
  [][ (reply'.op = "update_user_progress" /\ reply'.result # Raise("ZeroDivisionError"))
        => OneEntryAppended ]_vars

\* the exceptions open() and the write of save_user_progress raise
WriteErrors == {Raise("PermissionError"), Raise("OSError")}

\* "Progress updated: <action> for module <module_id>" for the call of reply
Confirmation(r) ==
  Return(<<"Progress updated: ", r.args.action, " for module ">> \o Format(r.args.module_id))

\* C15: update(m, a) with a neither "start" nor "complete" is accepted: the
\* Progress record changes in session_history only, which gets the entry of
\* the call with action a, and the record is persisted; the call returns the
\* confirmation unless the write itself fails.
C15_OtherActionOnlyRecorded ==
  [][ (reply'.op = "update_user_progress" /\ reply'.args.action \notin {"start", "complete"}) =>
        /\ \E now \in Timestamps :
             user_progress' =
               [user_progress EXCEPT !.session_history =
                  Append(@, [timestamp |-> now, module |-> reply'.args.module_id,
                             action |-> reply'.args.action])]
        /\ reply'.result \in {Confirmation(reply')} \cup WriteErrors
        /\ reply'.result = Confirmation(reply')
             => progress_file' = FileJson(json_dump(user_progress')) ]_vars

C15_Witness ==
  /\ Updated
  /\ reply.args = [module_id |-> PyStr("mX"), action |-> "pause"]
  /\ reply.result = Return(<<"Progress updated: ", "pause", " for module ", "mX">>)
  /\ user_progress.current_module = PyStr("m1")
  /\ user_progress.completed_modules = <<PyStr("m2")>>
  /\ user_progress.current_progress = PyFloat(51, 2)
  /\ Len(user_progress.session_history) = 2
  /\ user_progress.session_history[2] = [timestamp |-> "T1", module |-> PyStr("mX"), action |-> "pause"]
  /\ progress_file = FileJson(json_dump(user_progress))

\* C16: update never raises on account of its arguments or of the module
\* table and returns "Progress updated: <action> for module <module_id>": for
\* every module id (of the table, absent from it, None), every action and
\* every module table, an empty one included; only a failed write of the
\* document ends a call otherwise.
C16_UpdateAlwaysConfirms ==
  Updated => reply.result \in {Confirmation(reply)} \cup WriteErrors

\* C17: after every update call that returns, the persisted document is the
\* JSON text of the whole in-memory Progress record: each save overwrites the
\* document in full, nothing of the document before it is kept, and no
\* returned update leaves the document behind the record.
C17_DocumentIsWholeRecord ==
  (Updated /\ reply.result.kind = "return")
    => /\ progress_file = FileJson(json_dump(user_progress))
       /\ Len(progress_file.text.o.session_history.a) = Len(user_progress.session_history)

C17_Witness ==
  /\ Updated
  /\ reply.result.kind = "return"
  /\ reply.args = [module_id |-> PyStr("m1"), action |-> "complete"]
  /\ user_progress.completed_modules = <<PyStr("m2"), PyStr("m1")>>
  /\ Len(user_progress.session_history) = 2
  /\ progress_file.state = "json"
  /\ progress_file.text.o.completed_modules.a = <<JString("m2"), JString("m1")>>
  /\ progress_file.text.o.current_progress \in {JReal(100, 1), JReal(200, 1)}

(***************************************************************************)
(* Properties of the documents, over sessions.                             *)
(***************************************************************************)
Imported == reply.op = "import app" /\ reply.result.kind = "return"

C19_LoadFallsBackToDefault ==
  (Imported /\ progress_file.state \in {"missing", "unreadable", "malformed"})
    => /\ user_progress.current_module = PyNone
       /\ user_progress.completed_modules = <<>>
       /\ user_progress.current_progress = PyInt(0)
       /\ user_progress.skills_acquired = <<>>
       /\ user_progress.assessments_completed = <<>>
       /\ user_progress.hands_on_projects = <<>>
       /\ user_progress.session_history = <<>>
       /\ user_progress.bookmarks = <<>>
       /\ user_progress.notes = <<>>
       /\ user_progress.preferences.focus_areas = <<>>
       /\ user_progress.preferences.difficulty_level = "intermediate"
       /\ user_progress = load_user_progress(FileMissing)

\* a session started on a document that is not JSON
C19_Witness ==
  /\ Imported
  /\ progress_file = FileMalformed
  /\ user_progress = DefaultProgress
  /\ request.config_file = ConfigJson(SAMPLE_MODULE_CONFIG)

\* the write of the update call of a step did not happen or did not finish
WriteFailed == progress_file' # FileJson(json_dump(user_progress'))

SavedLast(before, after, other) ==
  /\ progress_file' = FileJson(json_dump(after))
  /\ Len(progress_file'.text.o.session_history.a) = Len(before.session_history) + 1
  /\ other # after => load_user_progress(progress_file') # other

\* C21: no locking and no merging between writers: when two writers that
\* loaded the same document each perform an update, the document ends equal
\* to the record of the writer that saved last and the change of the other
\* writer is not in it.
C21_LastWriterWins ==
  [][ (reply'.op = "update_user_progress" /\ reply'.result.kind = "return") =>
        /\ user_progress' # user_progress => SavedLast(user_progress, user_progress', peer_progress)
        /\ peer_progress' # peer_progress => SavedLast(peer_progress, peer_progress', user_progress) ]_vars

\* the first writer completed m1 and saved, the second then started m2 and
\* saved: the document holds no completed module
C21_Witness ==
  /\ user_progress.session_history = <<[timestamp |-> "T1", module |-> PyStr("m1"), action |-> "complete"]>>
  /\ user_progress.completed_modules = <<PyStr("m1")>>
  /\ peer_progress.session_history = <<[timestamp |-> "T1", module |-> PyStr("m2"), action |-> "start"]>>
  /\ progress_file = FileJson(json_dump(peer_progress))
  /\ progress_file.text.o.completed_modules.a = <<>>
  /\ Len(progress_file.text.o.session_history.a) = 1

(***************************************************************************)
(* Properties of the slide texts, over the calls of SpecResolver.          *)
(***************************************************************************)
\* the fragment is part of the text
Contains(text, fragment) == \E i \in 1..Len(text) : text[i] = fragment

RECURSIVE Bullets(_)
\* the items of the markdown bullet list of a text ("- **<item>**"), in order
Bullets(text) ==
  IF Len(text) < 3 THEN <<>>
  ELSE IF text[1] = "- **" /\ text[3] = "**" THEN <<text[2]>> \o Bullets(Tail(Tail(Tail(text))))
  ELSE Bullets(Tail(text))

\* a generate_slide("module_overview", index, module_data) call at an
\* in-bounds index with a module record that has all five fields
OverviewOf(index) ==
  /\ InBounds
  /\ slide.args.template_type = "module_overview"
  /\ slide.args.slide_index = index
  /\ slide.args.module_data \in ConfiguredModules

\* what C22 says of the text: at index 0 the title, the description, the
\* title-cased difficulty and the hands-on indicator; at index 2 the topics
ShowsModuleFields(text) ==
  LET d == slide.args.module_data.d
  IN /\ OverviewOf(0) =>
          /\ Contains(text, d.title.s)
          /\ Contains(text, d.description.s)
          /\ Contains(text, TitleCase(d.difficulty.s))
          /\ Contains(text, ":check: Yes") <=> d.hands_on.b
          /\ Contains(text, ":cross: No") <=> ~d.hands_on.b
     /\ OverviewOf(2) => Bullets(text) = d.topics.l

\* C22: generate_slide("module_overview", 0, module_data) with non-empty
\* module_data contains the module's title, its description, its difficulty
\* title-cased and the hands-on indicator, "Yes" exactly when hands_on is
\* true and "No" otherwise; at index 2 the text lists every entry of topics as
\* a bullet, in the order of topics.
C22_OverviewShowsModuleFields ==
  (OverviewOf(0) \/ OverviewOf(2))
    => /\ slide.result.kind = "return"
       /\ ShowsModuleFields(slide.result.value)

\* the same for the calls that return
C22_OverviewShowsModuleFieldsWhenReturned ==
  ((OverviewOf(0) \/ OverviewOf(2)) /\ slide.result.kind = "return")
    => ShowsModuleFields(slide.result.value)

C22_ReturnedWitness ==
  /\ OverviewOf(2)
  /\ slide.result.kind = "return"
  /\ slide.args.module_data.d.topics.l = <<"t1", "t1", "t3">>
  /\ Bullets(slide.result.value) = <<"t1", "t1", "t3">>

\* a module_overview call without module data
OverviewWithoutData ==
  /\ TemplateKnown
  /\ slide.args.template_type = "module_overview"
  /\ slide.args.module_data = PyNone

\* C24: the checks of the resolver run in a fixed order, template lookup,
\* slide-index bound, module-data check: a call with an unknown template
\* returns "Template not found" whatever the index and the module data, and
\* module_overview with module_data None and an out-of-range index returns
\* "Slide not found", never "Module data not available".
C24_ChecksInFixedOrder ==
  /\ (Called /\ ~TemplateKnown) => slide.result = TemplateNotFound
  /\ (OverviewWithoutData /\ ~InBounds) => slide.result = SlideNotFound

\* the same with the indices past the end as the out-of-range ones
C24_ChecksInFixedOrderPastEnd ==
  /\ (Called /\ ~TemplateKnown) => slide.result = TemplateNotFound
  /\ (OverviewWithoutData /\ slide.args.slide_index >= Len(TitlesOf)) => slide.result = SlideNotFound

(***************************************************************************)
(* Properties of update calls in worker threads.                           *)
(***************************************************************************)
\* every update call runs to completion before the next one starts
Serialized == ActiveCalls <= 1

\* the number of times x is in lst
Occurrences(x, lst) == Cardinality({i \in 1..Len(lst) : lst[i] = x})

\* worker w appends to completed_modules in this step (line 753)
Appends(w) == calls[w].pc = "append" /\ calls'[w].pc = "progress"

\* worker w assigns current_progress in this step (line 754)
Recomputes(w) == calls[w].pc = "progress" /\ calls'[w].pc = "skills"

\* C23: completed_modules is duplicate-free only as long as update calls are
\* serialized: when every call runs to completion before the next starts no
\* module is in the list twice, but when the membership tests of two
\* update(m, "complete") calls both run before either append, m is appended
\* twice and current_progress is computed from the list with the duplicate.
C23_DedupNeedsSerializedCalls ==
  /\ ([]Serialized => []NoDuplicates(user_progress.completed_modules))
  /\ [][ \A w \in Workers :
           /\ (Appends(w) /\ InList(calls[w].module_id, user_progress.completed_modules))
                => Occurrences(calls[w].module_id, user_progress'.completed_modules)
                     = Occurrences(calls[w].module_id, user_progress.completed_modules) + 1
           /\ Recomputes(w)
                => user_progress'.current_progress =
                     PyFloat(Len(user_progress.completed_modules) * 100, ModuleCount) ]_vars

\* both calls of update("m1", "complete") have returned: one module of three
\* is completed and current_progress is two thirds of 100
C23_Witness ==
  /\ calls = NoCalls
  /\ ModuleCount = 3
  /\ user_progress.completed_modules = <<PyStr("m1"), PyStr("m1")>>
  /\ user_progress.current_progress = PyFloat(200, 3)
  /\ Len(user_progress.session_history) = 2
  /\ reply.result = Return(<<"Progress updated: ", "complete", " for module ", "m1">>)

\* the number of slide literals in the table of the routine of a built-in
\* template: indices 0..n-1 are mapped
MappedCount(template_type) ==
  IF template_type \in {"introduction", "conclusion"} THEN 4 ELSE 5

\* a call for a built-in template at an in-bounds index that the table of its
\* routine does not map, past the module-data check of module_overview
UnmappedIndex ==
  /\ InBounds
  /\ slide.args.template_type \in BuiltinTemplates
  /\ slide.args.slide_index >= MappedCount(slide.args.template_type)
  /\ slide.args.template_type = "module_overview" => Truthy(slide.args.module_data)

ContentComingSoon ==
  Return(<<"#", " ", TitlesOf[slide.args.slide_index + 1], "\n\nContent coming soon...">>)

\* C25: for a built-in template type and an in-bounds slide_index that the
\* literal table of the routine does not map (index 4 of "introduction" or
\* "conclusion" with five titles), generate_slide returns exactly
\* "# <title>\n\nContent coming soon..." with the slide title at that index.
C25_UnmappedIndexFallsBack == UnmappedIndex => slide.result = ContentComingSoon

\* the same for the calls that return
C25_UnmappedIndexFallsBackWhenReturned ==
  (UnmappedIndex /\ slide.result.kind = "return") => slide.result = ContentComingSoon

C25_ReturnedWitness ==
  /\ UnmappedIndex
  /\ slide.args.template_type = "conclusion"
  /\ slide.args.slide_index = 4
  /\ slide.result = Return(<<"#", " ", "Farewell", "\n\nContent coming soon...">>)

(***************************************************************************)
(* More properties of the Progress record, over serialized update calls.   *)
(***************************************************************************)
\* the update call of a step returned the confirmation and the document is
\* the record, or the write failed
SavedOrWriteFailed ==
  /\ reply'.result \in {Confirmation(reply')} \cup WriteErrors
  /\ reply'.result = Confirmation(reply') => progress_file' = FileJson(json_dump(user_progress'))

\* C26: update(m, "complete") with m already in completed_modules leaves
\* completed_modules, current_progress and skills_acquired exactly as they
\* were, and still appends one session-history entry with action "complete"
\* and persists.
C26_RepeatedCompleteOnlyRecorded ==
  [][ (/\ reply'.op = "update_user_progress"
       /\ reply'.args.action = "complete"
       /\ InList(reply'.args.module_id, user_progress.completed_modules))
      => /\ user_progress'.completed_modules = user_progress.completed_modules
         /\ user_progress'.current_progress = user_progress.current_progress
         /\ user_progress'.skills_acquired = user_progress.skills_acquired
         /\ OneEntryAppended
         /\ SavedOrWriteFailed ]_vars

\* "m2" of the stored record is completed once more: the stored percentage,
\* which is not the share of completed modules, and the skills are kept
C26_Witness ==
  /\ Updated
  /\ reply.args = [module_id |-> PyStr("m2"), action |-> "complete"]
  /\ reply.result.kind = "return"
  /\ user_progress.completed_modules = <<PyStr("m2")>>
  /\ user_progress.current_progress = PyFloat(51, 2)
  /\ user_progress.skills_acquired = <<"t2", "t9">>
  /\ Len(user_progress.session_history) = 2
  /\ user_progress.session_history[2].action = "complete"

\* C27: completing a module marks it completed and ends its in-progress
\* status: after update(m, "complete") for the module m that is
\* current_module, m is in completed_modules and current_module is None.
C27_CompleteEndsCurrentModule ==
  [][ (/\ reply'.op = "update_user_progress"
       /\ reply'.result.kind = "return"
       /\ reply'.args.action = "complete"
       /\ reply'.args.module_id.t = "str"
       /\ reply'.args.module_id = user_progress.current_module)
      => /\ InList(reply'.args.module_id, user_progress'.completed_modules)
         /\ user_progress'.current_module = PyNone ]_vars

\* the part of it that the code does: the module is in completed_modules
C27_CompleteMarksCompleted ==
  [][ (/\ reply'.op = "update_user_progress"
       /\ reply'.args.action = "complete"
       /\ reply'.args.module_id = user_progress.current_module)
      => InList(reply'.args.module_id, user_progress'.completed_modules) ]_vars

\* C28: no update call, whatever its module id and action, changes
\* assessments_completed, hands_on_projects, learning_path, preferences,
\* bookmarks or notes; update(m, "start") also leaves completed_modules,
\* current_progress and skills_acquired as they were.
C28_UpdateFrame ==
  [][ reply'.op = "update_user_progress" =>
        /\ user_progress'.assessments_completed = user_progress.assessments_completed
        /\ user_progress'.hands_on_projects = user_progress.hands_on_projects
        /\ user_progress'.learning_path = user_progress.learning_path
        /\ user_progress'.preferences = user_progress.preferences
        /\ user_progress'.bookmarks = user_progress.bookmarks
        /\ user_progress'.notes = user_progress.notes
        /\ reply'.args.action = "start" =>
             /\ user_progress'.completed_modules = user_progress.completed_modules
             /\ user_progress'.current_progress = user_progress.current_progress
             /\ user_progress'.skills_acquired = user_progress.skills_acquired ]_vars

\* a module absent from the table was started on the stored record
C28_Witness ==
  /\ Updated
  /\ reply.args = [module_id |-> PyStr("mX"), action |-> "start"]
  /\ user_progress.current_module = PyStr("mX")
  /\ user_progress.completed_modules = <<PyStr("m2")>>
  /\ user_progress.current_progress = PyFloat(51, 2)
  /\ user_progress.skills_acquired = <<"t2", "t9">>
  /\ user_progress.assessments_completed = <<"a1">>
  /\ user_progress.bookmarks = <<"b1">>
  /\ user_progress.learning_path = "intermediate"

\* C29: when the write of the document fails during update, the exception
\* reaches the caller and no confirmation is returned; what the call did to
\* the record (current_module, or completed_modules, current_progress and
\* skills_acquired, and the new history entry) is kept, so the record is ahead
\* of the document, until an update saves.
C29_FailedWriteKeepsMutation ==
  [][ reply'.op = "update_user_progress" =>
        /\ reply'.result \in WriteErrors =>
             /\ WriteFailed
             /\ progress_file' \in {progress_file, FileMalformed}
             /\ OneEntryAppended
             /\ reply'.args.action = "start" => user_progress'.current_module = reply'.args.module_id
             /\ FirstTimeComplete =>
                  /\ user_progress'.completed_modules =
                       Append(user_progress.completed_modules, reply'.args.module_id)
                  /\ user_progress'.current_progress =
                       PyFloat(Len(user_progress'.completed_modules) * 100, ModuleCount)
                  /\ user_progress'.skills_acquired =
                       MergeTopics(user_progress.skills_acquired,
                                   Get(ModuleLookup(config, reply'.args.module_id), "topics", PyList(<<>>)).l)
        /\ reply'.result = Confirmation(reply') => ~WriteFailed ]_vars

\* the write of update("m1", "complete") failed on a fresh start: the module
\* is completed in the record and no document exists
C29_Witness ==
  /\ Updated
  /\ reply.args = [module_id |-> PyStr("m1"), action |-> "complete"]
  /\ reply.result = Raise("PermissionError")
  /\ user_progress.completed_modules = <<PyStr("m1")>>
  /\ user_progress.current_progress = PyFloat(50, 1)
  /\ user_progress.skills_acquired = <<"t1", "t2">>
  /\ Len(user_progress.session_history) = 1
  /\ progress_file = FileMissing

(***************************************************************************)
(* Properties of the handler, over the calls of SpecHandler.               *)
(***************************************************************************)
Handled == slide.op = "generate_presentation_slide"

\* no module selected: the id is None or ""
Unselected == ~Truthy(slide.args.module_id)

\* a selection that is not a key of config['modules']
UnknownSelection ==
  Truthy(slide.args.module_id) /\ slide.args.module_id.s \notin DOMAIN config.modules

HandledTitles == presentation_gen.templates[slide.args.template_type].slides

HandledInBounds ==
  /\ slide.args.template_type \in DOMAIN presentation_gen.templates
  /\ slide.args.slide_index \in 0..(Len(HandledTitles) - 1)

\* C30: generate_presentation_slide passes None as module data when no module
\* is selected (id None or "") and the empty record when the id is not in the
\* module table; in both cases a module_overview request at an in-bounds index
\* returns the "Module data not available" slide, a request for another
\* template returns the slide every module selection gets, and the handler
\* does not raise.
C30_UnknownLikeMissing ==
  (Handled /\ (Unselected \/ UnknownSelection)) =>
     /\ slide.result = generate_slide(presentation_gen, Globals, slide.args.template_type,
                                      slide.args.slide_index,
                                      IF Unselected THEN PyNone ELSE EmptyDict)
     /\ (HandledInBounds /\ slide.args.template_type = "module_overview") =>
          slide.result = Return(<<"#", " ", HandledTitles[slide.args.slide_index + 1],
                                  "\n\nModule data not available">>)
     /\ slide.args.template_type # "module_overview" =>
          \A m \in ModuleDatas :
            slide.result = generate_slide(presentation_gen, Globals, slide.args.template_type,
                                          slide.args.slide_index, m)
     /\ slide.result.kind = "return"

\* module_overview slide 4 for the id "mX", which the table does not hold
C30_Witness ==
  /\ Handled
  /\ UnknownSelection
  /\ slide.args = [module_id |-> PyStr("mX"), template_type |-> "module_overview", slide_index |-> 4]
  /\ slide.result = Return(<<"#", " ", "Assessment Criteria", "\n\nModule data not available">>)

====
